---- MODULE Spec2Model ----
(***************************************************************************)
(* The create command of the client (CreateCommand in                      *)
(* hummingbot/client/command/create_command.py) as a state machine.        *)
(*                                                                         *)
(* A session is one run of the coroutine prompt_for_configuration.  It     *)
(* suspends at every "await self.app.prompt(...)" and at the readiness     *)
(* check; one action of the model is the code that runs from one           *)
(* resumption to the next suspension (or to the end of the coroutine).     *)
(* The handlers are written as functions on a record of the whole state,   *)
(* composed in the order the code runs them.                               *)
(***************************************************************************)
EXTENDS Naturals, Sequences, FiniteSets, TLC

\* Bounds of the model.
MaxSessions == 2        \* sessions started by create
MaxRetries == 2         \* rejected inputs accepted at one prompt

\* Python None in a string-typed slot, and in a file-name-typed slot.
None == "None"
NoName == <<"None">>

Range(s) == {s[i] : i \in DOMAIN s}

(***************************************************************************)
(* File names are sequences of tokens, so that the extension test of       *)
(* format_config_file_name is computed and not assumed.                    *)
(***************************************************************************)
Ext == <<".", "yml">>
RawNames == {<<>>, <<"a">>, <<"b">>, <<"a", ".", "yml">>}
InitFiles == {<<"a", ".", "yml">>}

\* config_helpers.format_config_file_name: append the extension when the
\* name has none.
format_config_file_name(file_name) ==
    IF "." \in Range(file_name) THEN file_name ELSE file_name \o Ext

\* os.path.exists(os.path.join(CONF_FILE_PATH, name)) on the set of files.
path_exists(fs, name) == name \in fs

(***************************************************************************)
(* The schema catalogue: one structured strategy, one legacy strategy and  *)
(* one name the catalogue does not resolve.                                *)
(***************************************************************************)
get_strategy_config_map(strategy) ==
    CASE strategy = "pmm" -> "model"
      [] strategy = "leg" -> "legacy"
      [] OTHER -> "none"

(***************************************************************************)
(* Structured models.  "base" is BaseStrategyConfigMap (strategy           *)
(* selection), "pmm" the schema of the structured strategy, "range" and    *)
(* "inf" the nested models the field timeframe can take as its value.      *)
(* cd: the field has client data; pon: prompt_on_new; req: required;       *)
(* text: get_client_prompt returns a prompt; kind: what the field accepts. *)
(***************************************************************************)
Models == {"base", "pmm", "range", "inf"}

ModelFields ==
    [base  |-> <<"strategy">>,
     pmm   |-> <<"strategy", "market", "opt", "timeframe", "derived", "spread">>,
     range |-> <<"start">>,
     inf   |-> <<>>]

Meta(cd, pon, req, text, kind) ==
    [cd |-> cd, pon |-> pon, req |-> req, text |-> text, kind |-> kind]

FieldMeta(m, f) ==
    CASE m = "base"                    -> Meta(TRUE, TRUE, TRUE, TRUE, "strategy")
      [] m = "pmm" /\ f = "strategy"   -> Meta(FALSE, FALSE, TRUE, FALSE, "strategy")
      [] m = "pmm" /\ f = "market"     -> Meta(TRUE, TRUE, TRUE, TRUE, "num")
      [] m = "pmm" /\ f = "opt"        -> Meta(TRUE, TRUE, FALSE, TRUE, "num")
      [] m = "pmm" /\ f = "timeframe"  -> Meta(TRUE, TRUE, TRUE, TRUE, "model")
      [] m = "pmm" /\ f = "derived"    -> Meta(TRUE, TRUE, TRUE, FALSE, "num")
      [] m = "pmm" /\ f = "spread"     -> Meta(TRUE, TRUE, TRUE, TRUE, "num")
      [] OTHER                         -> Meta(TRUE, TRUE, TRUE, TRUE, "num")

\* What the operator can type at a prompt of each kind ("abc" is rejected
\* by every field).
InputsFor(kind) ==
    CASE kind = "strategy" -> {"pmm", "leg", "ghost", "abc"}
      [] kind = "num"      -> {"5", "7", "abc"}
      [] kind = "model"    -> {"inf", "range", "abc"}

\* The validation a field runs on assignment (pydantic validate_assignment
\* for a model field, ConfigVar.validate for a legacy field).
Valid(kind, input) ==
    CASE kind = "strategy" -> input \in {"pmm", "leg", "ghost"}
      [] kind = "num"      -> input \in {"5", "7"}
      [] kind = "model"    -> input \in {"inf", "range"}

\* The typed value a valid text becomes; a text that does not parse is
\* returned as it is.
ParseTable(input) ==
    CASE input = "5" -> "5.0"
      [] input = "7" -> "7.0"
      [] OTHER -> input

\* A test that takes no value for a model.
IsModel_never(value) == FALSE

\* isinstance(value, BaseClientModel)
IsModel(value) == value \in {"inf", "range"}

FreshModel(m) == [f \in Range(ModelFields[m]) |-> None]

(***************************************************************************)
(* The legacy flat map of strategy "leg", in map order.                    *)
(***************************************************************************)
LegacyKeys == <<"k1", "k2", "k3", "k4">>

LegacyMeta(k) ==
    CASE k = "k1" -> [required |-> TRUE,  prompt_on_new |-> TRUE,  default |-> "d1"]
      [] k = "k2" -> [required |-> FALSE, prompt_on_new |-> TRUE,  default |-> "d2"]
      [] k = "k3" -> [required |-> TRUE,  prompt_on_new |-> FALSE, default |-> "d3"]
      [] k = "k4" -> [required |-> TRUE,  prompt_on_new |-> TRUE,  default |-> None]

VARIABLES
    \* the application object (self, self.app)
    placeholder_mode, hide_input, to_stop_config,
    strategy_file_name, strategy_name, strategy_config_map,
    \* the file system under CONF_FILE_PATH and the module-level legacy map
    files, legacy_map,
    \* the session coroutine: where it is suspended, and its locals
    pc, file_name, strategy, stack, model_val, config_map_backup, li, caller,
    \* what the session has done so far (observable effects)
    sessions, rejected, notified, lookup_called, saves, verifies,
    cancelled_at, prompts_after_cancel, engine_done, overwrote,
    routine, finished, fname_log, map_at_start, parked, visited, prompted, status_result, saved_map, nested, supplied, saved_as, tick

vars == <<placeholder_mode, hide_input, to_stop_config,
          strategy_file_name, strategy_name, strategy_config_map,
          files, legacy_map,
          pc, file_name, strategy, stack, model_val, config_map_backup, li, caller,
          sessions, rejected, notified, lookup_called, saves, verifies,
          cancelled_at, prompts_after_cancel, engine_done, overwrote,
          routine, finished, fname_log, map_at_start, parked, visited, prompted, status_result, saved_map, nested, supplied, saved_as, tick>>


(***************************************************************************)
(* The state as one record, so that the pieces of a handler compose.       *)
(***************************************************************************)
St ==
    [placeholder_mode |-> placeholder_mode, hide_input |-> hide_input,
     to_stop_config |-> to_stop_config,
     strategy_file_name |-> strategy_file_name, strategy_name |-> strategy_name,
     strategy_config_map |-> strategy_config_map,
     files |-> files, legacy_map |-> legacy_map,
     pc |-> pc, file_name |-> file_name, strategy |-> strategy, stack |-> stack,
     model_val |-> model_val, config_map_backup |-> config_map_backup,
     li |-> li, caller |-> caller,
     sessions |-> sessions, rejected |-> rejected, notified |-> notified,
     lookup_called |-> lookup_called, saves |-> saves, verifies |-> verifies,
     cancelled_at |-> cancelled_at, prompts_after_cancel |-> prompts_after_cancel,
     engine_done |-> engine_done, overwrote |-> overwrote,
     routine |-> routine, finished |-> finished, fname_log |-> fname_log,
     map_at_start |-> map_at_start,
     parked |-> parked,
     visited |-> visited,
     prompted |-> prompted,
     status_result |-> status_result,
     saved_map |-> saved_map,
     nested |-> nested,
     supplied |-> supplied,
     saved_as |-> saved_as,
     tick |-> tick]

\* Every variable takes its value from the record s, which is evaluated once.
Set(s) ==
    \E r \in {s} :
       /\ placeholder_mode' = r.placeholder_mode
       /\ hide_input' = r.hide_input
       /\ to_stop_config' = r.to_stop_config
       /\ strategy_file_name' = r.strategy_file_name
       /\ strategy_name' = r.strategy_name
       /\ strategy_config_map' = r.strategy_config_map
       /\ files' = r.files
       /\ legacy_map' = r.legacy_map
       /\ pc' = r.pc
       /\ file_name' = r.file_name
       /\ strategy' = r.strategy
       /\ stack' = r.stack
       /\ model_val' = r.model_val
       /\ config_map_backup' = r.config_map_backup
       /\ li' = r.li
       /\ caller' = r.caller
       /\ sessions' = r.sessions
       /\ rejected' = r.rejected
       /\ notified' = r.notified
       /\ lookup_called' = r.lookup_called
       /\ saves' = r.saves
       /\ verifies' = r.verifies
       /\ cancelled_at' = r.cancelled_at
       /\ prompts_after_cancel' = r.prompts_after_cancel
       /\ engine_done' = r.engine_done
       /\ overwrote' = r.overwrote
       /\ routine' = r.routine
       /\ finished' = r.finished
       /\ fname_log' = r.fname_log
       /\ map_at_start' = r.map_at_start
       /\ parked' = r.parked
       /\ visited' = r.visited
       /\ prompted' = r.prompted
       /\ status_result' = r.status_result
       /\ saved_map' = r.saved_map
       /\ nested' = r.nested
       /\ supplied' = r.supplied
       /\ saved_as' = r.saved_as
       /\ tick' = r.tick

NoRoutine == [field |-> <<>>, before |-> None, errs |-> 0, bad |-> 0]
NoFinished ==
    [field |-> <<>>, before |-> None, after |-> None, errs |-> 0, bad |-> 0,
     input |-> None, outcome |-> "none"]
NoFnameLog ==
    [prompts |-> 0, bad |-> 0, owed |-> 0, notes |-> 0, raw |-> NoName,
     returned |-> NoName, existed |-> FALSE]
UnsetMap == [k \in Range(LegacyKeys) |-> None]

Terminal == {"done", "cancelled", "failed", "crashed"}

Init ==
    /\ placeholder_mode = FALSE
    /\ hide_input = FALSE
    /\ to_stop_config = FALSE
    /\ strategy_file_name = NoName
    /\ strategy_name = None
    /\ strategy_config_map = None
    /\ files = InitFiles
    /\ legacy_map = UnsetMap
    /\ pc = "idle"
    /\ file_name = NoName
    /\ strategy = None
    /\ stack = <<>>
    /\ model_val = [m \in Models |-> FreshModel(m)]
    /\ config_map_backup = UnsetMap
    /\ li = 0
    /\ caller = "none"
    /\ sessions = 0
    /\ rejected = FALSE
    /\ notified = {}
    /\ lookup_called = FALSE
    /\ saves = 0
    /\ verifies = 0
    /\ cancelled_at = "no"
    /\ prompts_after_cancel = FALSE
    /\ engine_done = FALSE
    /\ overwrote = FALSE
    /\ routine = NoRoutine
    /\ finished = NoFinished
    /\ fname_log = NoFnameLog
    /\ map_at_start = UnsetMap
    /\ parked = <<>>
    /\ visited = <<>>
    /\ prompted = <<>>
    /\ status_result = "none"
    /\ saved_map = UnsetMap
    /\ nested = <<>>
    /\ supplied = NoName
    /\ saved_as = NoName
    /\ tick = FALSE

(***************************************************************************)
(* Small steps shared by the handlers.                                     *)
(***************************************************************************)
\* self._notify(...): the kinds of message the session has shown.
notify(s, kind) == [s EXCEPT !.notified = @ \cup {kind}]

\* The front end sets to_stop_config while a prompt is outstanding; the
\* prompt then returns.
Cancelled(s, where) ==
    [s EXCEPT !.to_stop_config = TRUE,
              !.cancelled_at = IF @ = "no" THEN where ELSE @]

\* A prompt is handed to the front end (self.app.prompt).
IssuePrompt(s) ==
    [s EXCEPT !.prompts_after_cancel = @ \/ s.to_stop_config]

\* The coroutine has ended: returned (done, cancelled) or raised (failed,
\* crashed).
End(s, label) ==
    [s EXCEPT !.pc = label, !.stack = <<>>, !.li = 0, !.caller = "none",
              !.routine = NoRoutine]

\* A restore that skips the keys the engine did not prompt.
restore_prompted_only(config_map, backup) ==
    [key \in DOMAIN config_map |->
        IF LegacyMeta(key).prompt_on_new /\ LegacyMeta(key).required
        THEN backup[key] ELSE config_map[key]]

\* restore_config_legacy: every key takes the backup's entry.
restore_config_legacy(config_map, backup) ==
    [key \in DOMAIN config_map |-> backup[key]]

\* A stop_config that restores the maps and leaves the flag as it is.
stop_config_keeps_flag(s, maps) ==
    [s EXCEPT !.legacy_map =
                  IF maps THEN restore_config_legacy(@, s.config_map_backup) ELSE @]

\* stop_config(config_map, config_map_backup); maps is FALSE when it is
\* called without arguments.
stop_config(s, maps) ==
    [s EXCEPT !.legacy_map =
                  IF maps THEN restore_config_legacy(@, s.config_map_backup) ELSE @,
              !.to_stop_config = FALSE]

\* verify_status up to its suspension in asyncio.wait_for.
verify_status(s, who) ==
    [s EXCEPT !.pc = "verify", !.caller = who, !.verifies = @ + 1,
              !.stack = <<>>, !.li = 0, !.routine = NoRoutine]

\* save_to_yml / shutil.copy + save_to_yml_legacy: the file now exists.
save_to_yml(s, fn) ==
    [s EXCEPT !.files = @ \cup {fn}, !.saves = @ + 1, !.saved_as = fn,
              !.overwrote = @ \/ path_exists(s.files, fn)]

\* prompt_new_file_name up to its prompt.
prompt_new_file_name(s, who) ==
    IssuePrompt([s EXCEPT !.pc = "fname", !.caller = who, !.stack = <<>>,
                          !.li = 0, !.routine = NoRoutine,
                          !.fname_log = [NoFnameLog EXCEPT !.prompts = 1]])

\* prompt_for_configuration, lines 75-83: bind the session and verify.
controller_bind(s, fn) ==
    verify_status([s EXCEPT !.file_name = fn,
                            !.strategy_file_name = fn,
                            !.strategy_name = s.strategy,
                            !.strategy_config_map = s.strategy,
                            !.placeholder_mode = FALSE,
                            !.hide_input = FALSE], "controller")

\* save_config_to_file up to its first suspension, with the controller's
\* lines 75-83 when it returns at once.
save_config_to_file(s) ==
    IF s.file_name = NoName
    THEN prompt_new_file_name(s, "controller")
    ELSE controller_bind(save_to_yml(s, s.file_name), s.file_name)

\* A controller that goes on to persist without testing the flag.
tail_without_flag_test(s) == save_config_to_file(s)

\* prompt_for_configuration, lines 70-74.
prompt_for_configuration_tail(s) ==
    IF s.to_stop_config
    THEN End(stop_config(s, FALSE), IF s.engine_done THEN "done" ELSE "cancelled")
    ELSE save_config_to_file(s)

(***************************************************************************)
(* The legacy flat-map engine, prompt_for_configuration_legacy.            *)
(***************************************************************************)
LegacyPromptable(k) == LegacyMeta(k).prompt_on_new /\ LegacyMeta(k).required

\* A controller that does not set the flag after the legacy engine.
legacy_return_unflagged(s) == prompt_for_configuration_tail(s)

\* prompt_for_configuration, lines 65-66 and then 70-72: the legacy engine
\* has returned to the controller.
legacy_return(s) ==
    prompt_for_configuration_tail([s EXCEPT !.to_stop_config = TRUE])

\* prompt_for_configuration_legacy, lines 143-157: copy the template, save
\* the map, bind the session, verify.
legacy_save(s, fn) ==
    verify_status(
        notify([save_to_yml(s, fn) EXCEPT !.saved_map = s.legacy_map,
                                          !.strategy_file_name = fn,
                                          !.strategy_name = s.strategy,
                                          !.placeholder_mode = FALSE,
                                          !.hide_input = FALSE],
               "created"),
        "legacy")

\* prompt_for_configuration_legacy, lines 133-142, after the second pass.
legacy_after_loop(s) ==
    IF s.to_stop_config
    THEN legacy_return(stop_config(s, TRUE))
    ELSE IF s.file_name = NoName
         THEN prompt_new_file_name(s, "legacy")
         ELSE legacy_save(s, s.file_name)

\* A second pass that leaves the keys it does not prompt as the first pass
\* set them.
RECURSIVE second_pass_no_default(_, _)
second_pass_no_default(s, i) ==
    IF i > Len(LegacyKeys)
    THEN legacy_after_loop(s)
    ELSE LET k == LegacyKeys[i] IN
         IF LegacyPromptable(k)
         THEN IF ~s.to_stop_config
              THEN IssuePrompt(
                       [s EXCEPT !.pc = "legacy", !.li = i,
                                 !.prompted = Append(@, <<"leg", k>>),
                                 !.routine = [NoRoutine EXCEPT
                                                  !.field = <<"leg", k>>,
                                                  !.before = s.legacy_map[k]]])
              ELSE legacy_after_loop(s)
         ELSE second_pass_no_default(s, i + 1)

\* The second pass (lines 124-131) from key number i on, up to the next
\* prompt or through the rest of the engine.
RECURSIVE second_pass(_, _)
second_pass(s, i) ==
    IF i > Len(LegacyKeys)
    THEN legacy_after_loop(s)
    ELSE LET k == LegacyKeys[i] IN
         IF LegacyPromptable(k)
         THEN IF ~s.to_stop_config
              THEN IssuePrompt(
                       [s EXCEPT !.pc = "legacy", !.li = i,
                                 !.prompted = Append(@, <<"leg", k>>),
                                 !.routine = [NoRoutine EXCEPT
                                                  !.field = <<"leg", k>>,
                                                  !.before = s.legacy_map[k]]])
              ELSE legacy_after_loop(s)
         ELSE second_pass(
                  [s EXCEPT !.legacy_map[k] = LegacyMeta(k).default], i + 1)

\* The first pass (lines 119-123).
first_pass(config_map) ==
    [k \in DOMAIN config_map |->
        IF LegacyMeta(k).required THEN LegacyMeta(k).default ELSE None]

\* prompt_for_configuration_legacy from its entry (line 117).
prompt_for_configuration_legacy(s) ==
    second_pass([s EXCEPT !.config_map_backup = s.legacy_map,
                          !.legacy_map = first_pass(s.legacy_map)], 1)

\* config_helpers.parse_cvar_value on the text typed at a prompt.
parse_cvar_value(input) == ParseTable(input)

\* prompt_a_config_legacy after its prompt has returned (lines 205-213);
\* pc "running" says the routine has returned to the loop.
prompt_a_config_legacy(s, input) ==
    LET k == LegacyKeys[s.li]
        fin == [field |-> s.routine.field, before |-> s.routine.before,
                after |-> s.legacy_map[k], errs |-> s.routine.errs,
                bad |-> s.routine.bad, input |-> None, outcome |-> "cancelled"]
    IN IF s.to_stop_config
       THEN [s EXCEPT !.pc = "running", !.finished = fin]
       ELSE LET value == parse_cvar_value(input) IN
            IF ~Valid("num", input)
            THEN IssuePrompt(notify([s EXCEPT !.routine.errs = @ + 1], "error"))
            ELSE [s EXCEPT !.pc = "running",
                           !.legacy_map[k] = value,
                           !.finished = [fin EXCEPT !.after = value,
                                                    !.input = input,
                                                    !.outcome = "stored"]]

(***************************************************************************)
(* The structured engine, prompt_for_model_config and prompt_a_config.     *)
(* The stack holds one frame per running prompt_for_model_config loop:     *)
(* the model and the number of the field whose prompt is outstanding.      *)
(***************************************************************************)
\* A loop that passes on every field marked prompt-on-new, required or not.
Promptable_any_prompt_on_new(m, i) ==
    LET meta == FieldMeta(m, ModelFields[m][i])
    IN meta.cd /\ meta.pon

\* prompt_for_model_config, lines 102-106.
Promptable(m, i) ==
    LET meta == FieldMeta(m, ModelFields[m][i])
    IN meta.cd /\ meta.pon /\ meta.req

\* A search that stops at a field whether or not it has a prompt text.
RECURSIVE NextPrompt_ignores_text(_, _)
NextPrompt_ignores_text(m, i) ==
    IF i > Len(ModelFields[m]) THEN 0
    ELSE IF Promptable(m, i) THEN i
    ELSE NextPrompt_ignores_text(m, i + 1)

\* The first field from number i on at which the loop suspends: a field the
\* loop passes to prompt_a_config and for which get_client_prompt gives a
\* text (lines 170-172); 0 when the loop ends first.
RECURSIVE NextPrompt(_, _)
NextPrompt(m, i) ==
    IF i > Len(ModelFields[m]) THEN 0
    ELSE IF Promptable(m, i) /\ FieldMeta(m, ModelFields[m][i]).text THEN i
    ELSE NextPrompt(m, i + 1)

\* The field of the top frame is done and nothing is cancelled: go on in
\* the loops that are running, innermost first.
RECURSIVE Resume(_)
Resume(st) ==
    IF st = <<>> THEN <<>>
    ELSE LET top == st[Len(st)]
             j == NextPrompt(top.m, top.i + 1)
         IN IF j # 0
            THEN Append(SubSeq(st, 1, Len(st) - 1), [m |-> top.m, i |-> j])
            ELSE Resume(SubSeq(st, 1, Len(st) - 1))

\* prompt_for_model_config is entered on model n (line 188, or 63 and 90
\* with an empty stack).
Enter(st, n) ==
    LET j == NextPrompt(n, 1)
    IN IF j # 0 THEN Append(st, [m |-> n, i |-> j]) ELSE Resume(st)

\* The fields of model m, from number i up to number j (to the last one when
\* j is 0), that the loop passes to prompt_a_config (line 106).
RECURSIVE VisitsFrom(_, _, _)
VisitsFrom(m, i, j) ==
    IF i > Len(ModelFields[m]) \/ (j # 0 /\ i > j) THEN <<>>
    ELSE (IF Promptable(m, i) THEN <<(<<m, ModelFields[m][i]>>)>> ELSE <<>>)
         \o VisitsFrom(m, i + 1, j)

\* The fields passed to prompt_a_config while Resume(st) goes on.
RECURSIVE ResumeVisits(_)
ResumeVisits(st) ==
    IF st = <<>> THEN <<>>
    ELSE LET top == st[Len(st)]
             j == NextPrompt(top.m, top.i + 1)
         IN VisitsFrom(top.m, top.i + 1, j)
            \o (IF j # 0 THEN <<>> ELSE ResumeVisits(SubSeq(st, 1, Len(st) - 1)))

\* The fields passed to prompt_a_config while Enter(st, n) goes on.
EnterVisits(st, n) ==
    LET j == NextPrompt(n, 1)
    IN VisitsFrom(n, 1, j) \o (IF j # 0 THEN <<>> ELSE ResumeVisits(st))

\* The prompt of the top frame of st is handed to the front end (line 175).
SuspendModel(s, st) ==
    LET top == st[Len(st)]
        f == ModelFields[top.m][top.i]
    IN IssuePrompt([s EXCEPT !.stack = st,
                             !.prompted = Append(@, <<top.m, f>>),
                             !.routine = [NoRoutine EXCEPT
                                              !.field = <<top.m, f>>,
                                              !.before = s.model_val[top.m][f]]])

\* An assignment that stores the input without validating it.
setattr_unchecked(kind, old, input) ==
    [ok |-> TRUE, value |-> ParseTable(input)]

\* model.__setattr__(config, input_value) under validate_assignment, and
\* the read-back of line 181.
setattr(kind, old, input) ==
    IF Valid(kind, input)
    THEN [ok |-> TRUE, value |-> ParseTable(input)]
    ELSE [ok |-> FALSE, value |-> old]

\* prompt_a_config after its prompt has returned (lines 177-188), with the
\* loops it returns into; an empty stack says the outermost
\* prompt_for_model_config has returned.
prompt_a_config(s, input) ==
    LET top == s.stack[Len(s.stack)]
        f == ModelFields[top.m][top.i]
        old == s.model_val[top.m][f]
        fin == [field |-> s.routine.field, before |-> s.routine.before,
                after |-> old, errs |-> s.routine.errs,
                bad |-> s.routine.bad, input |-> None, outcome |-> "cancelled"]
    IN IF s.to_stop_config
       THEN \* lines 178 and 187 are false and the loop breaks (line 108)
            [s EXCEPT !.stack = <<>>, !.routine = NoRoutine, !.finished = fin]
       ELSE IF input = None
       THEN \* line 178 is false without the flag: nothing is stored and the
            \* loop goes on to its next field
            LET st == Resume(s.stack)
                s3 == [s EXCEPT !.visited = @ \o ResumeVisits(s.stack),
                                !.finished = [fin EXCEPT !.outcome = "skipped"]]
            IN IF st = <<>>
               THEN [s3 EXCEPT !.stack = <<>>, !.routine = NoRoutine]
               ELSE SuspendModel(s3, st)
       ELSE LET r == setattr(FieldMeta(top.m, f).kind, old, input) IN
            IF r.ok
            THEN LET v == r.value
                     s1 == [s EXCEPT !.model_val[top.m][f] = v,
                                     !.finished = [fin EXCEPT !.after = v,
                                                              !.input = input,
                                                              !.outcome = "stored"]]
                     s2 == IF IsModel(v)
                           THEN [s1 EXCEPT !.model_val[v] = FreshModel(v),
                                           !.nested = Append(@, <<top.m, f>>)]
                           ELSE s1
                     st == IF IsModel(v) THEN Enter(s.stack, v) ELSE Resume(s.stack)
                     s3 == [s2 EXCEPT !.visited =
                                          @ \o (IF IsModel(v)
                                                THEN EnterVisits(s.stack, v)
                                                ELSE ResumeVisits(s.stack))]
                 IN IF st = <<>>
                    THEN [s3 EXCEPT !.stack = <<>>, !.routine = NoRoutine]
                    ELSE SuspendModel(s3, st)
            ELSE IssuePrompt(notify([s EXCEPT !.routine.errs = @ + 1], "error"))

\* prompt_for_model_config on a schema, from the controller (line 63).
prompt_for_model_config(s, m) ==
    LET st == Enter(<<>>, m)
        s1 == [s EXCEPT !.visited = @ \o EnterVisits(<<>>, m)]
    IN IF st = <<>>
       THEN [s1 EXCEPT !.stack = <<>>, !.routine = NoRoutine]
       ELSE SuspendModel(s1, st)

\* get_strategy_name, lines 91-95, and prompt_for_configuration, lines
\* 54-68, up to the next suspension.
get_strategy_name_tail(s) ==
    LET s1 == IF s.to_stop_config
              THEN [stop_config(s, FALSE) EXCEPT !.strategy = None]
              ELSE [s EXCEPT !.strategy = s.model_val["base"]["strategy"]]
    IN IF s1.to_stop_config
       THEN End(stop_config(s1, FALSE), "cancelled")
       ELSE LET s2 == [s1 EXCEPT !.lookup_called = TRUE]
                kind == get_strategy_config_map(s2.strategy)
            IN IF s2.strategy = None
               THEN End(s2, "crashed")   \* line 59: None has no replace
               ELSE LET s3 == notify(s2, "docs") IN
                    CASE kind = "model" ->
                           LET e == prompt_for_model_config(
                                        [s3 EXCEPT !.pc = "fields",
                                                   !.model_val["pmm"] = FreshModel("pmm")],
                                        "pmm")
                           IN IF e.stack = <<>>
                              THEN prompt_for_configuration_tail(e)
                              ELSE e
                      [] kind = "legacy" -> prompt_for_configuration_legacy(s3)
                      [] OTHER ->
                           prompt_for_configuration_tail(
                               [s3 EXCEPT !.to_stop_config = TRUE])

(***************************************************************************)
(* The file-name prompt and the readiness check.                           *)
(***************************************************************************)
\* prompt_new_file_name, lines 238-245: what is done with the formatted
\* input.
file_name_check(input, fs) ==
    IF input = <<>> THEN "required"
    ELSE IF path_exists(fs, input) THEN "exists"
    ELSE "ok"

\* The caller of prompt_new_file_name once it has returned a name: lines
\* 139-157 of the legacy engine, lines 222-229 and 75-83 on the
\* structured path.
file_name_returned(s, input) ==
    IF s.caller = "legacy"
    THEN IF s.to_stop_config
         THEN legacy_return(stop_config(s, TRUE))
         ELSE legacy_save(s, input)
    ELSE IF s.to_stop_config
         THEN controller_bind(stop_config(s, FALSE), NoName)
         ELSE controller_bind(save_to_yml(s, input), input)

\* prompt_new_file_name after its prompt has returned (lines 236-245).
prompt_new_file_name_reply(s, raw) ==
    LET input == format_config_file_name(raw)
        check == file_name_check(input, s.files)
    IN IF check = "ok"
       THEN file_name_returned(
                [s EXCEPT !.fname_log.raw = raw,
                          !.fname_log.returned = input,
                          !.fname_log.existed = input \in s.files], input)
       ELSE IssuePrompt(notify([s EXCEPT !.fname_log.prompts = @ + 1,
                                         !.fname_log.notes = @ + 1],
                               IF check = "required" THEN "required" ELSE "collision"))

\* A verify_status that advises to start whatever the check returned.
verify_status_always_advises(s, r) ==
    IF r = "timeout"
    THEN End([notify(s, "timeout") EXCEPT !.strategy_file_name = NoName,
                                          !.strategy_name = None,
                                          !.status_result = r],
             "failed")
    ELSE LET s1 == [notify(s, "start") EXCEPT !.status_result = r] IN
         IF s.caller = "legacy"
         THEN legacy_return([s1 EXCEPT !.engine_done = TRUE])
         ELSE End(s1, "done")

\* verify_status after asyncio.wait_for has ended (lines 260-268), and the
\* code it returns into.
verify_status_result(s, r) ==
    IF r = "timeout"
    THEN End([notify(s, "timeout") EXCEPT !.strategy_file_name = NoName,
                                          !.strategy_name = None,
                                          !.status_result = r],
             "failed")
    ELSE LET s1 == [(IF r = "go" THEN notify(s, "start") ELSE s)
                       EXCEPT !.status_result = r] IN
         IF s.caller = "legacy"
         THEN legacy_return([s1 EXCEPT !.engine_done = TRUE])
         ELSE End(s1, "done")

\* safe_ensure_future(self.prompt_for_configuration(file_name)): a session is
\* scheduled with fresh locals.
schedule_session(s, name) ==
    [s EXCEPT !.pc = "scheduled", !.file_name = name,
              !.stack = <<>>, !.li = 0, !.caller = "none",
              !.routine = NoRoutine,
              !.strategy = None, !.sessions = @ + 1,
              !.rejected = FALSE, !.notified = {},
              !.lookup_called = FALSE, !.saves = 0, !.verifies = 0,
              !.cancelled_at = "no", !.prompts_after_cancel = FALSE,
              !.engine_done = FALSE, !.overwrote = FALSE,
              !.finished = NoFinished, !.fname_log = NoFnameLog,
              !.model_val = [m \in Models |-> FreshModel(m)],
              !.config_map_backup = UnsetMap,
              !.map_at_start = s.legacy_map,
              !.visited = <<>>,
              !.prompted = <<>>,
              !.status_result = "none",
              !.saved_map = UnsetMap,
              !.nested = <<>>,
              !.supplied = name,
              !.saved_as = NoName,
              !.tick = FALSE]

\* A create that schedules the session without looking for the file.
create_unchecked(s, fn) ==
    schedule_session(s, IF fn = NoName THEN NoName
                        ELSE format_config_file_name(fn))

\* create(file_name), lines 34-41.
create(s, fn) ==
    LET name == IF fn = NoName THEN NoName ELSE format_config_file_name(fn) IN
    IF name # NoName /\ path_exists(s.files, name)
    THEN notify([s EXCEPT !.rejected = TRUE], "exists")
    ELSE schedule_session(s, name)

(***************************************************************************)
(* Actions.                                                                *)
(***************************************************************************)
\* The event loop resumes the session's coroutine, which runs to its next
\* suspension or to its end and leaves the state s; tick turns over at
\* every resumption that leaves the coroutine suspended again.
Resumption(s) ==
    Set([s EXCEPT !.tick = IF s.pc \in Terminal THEN FALSE ELSE ~s.tick])

\* create(file_name), lines 33-41; fn is NoName for no file name.
Create ==
    /\ pc \in {"idle"} \cup Terminal
    /\ sessions < MaxSessions
    /\ \E fn \in RawNames \cup {NoName} : Set(create(St, fn))

\* prompt_for_configuration, lines 47-52, and get_strategy_name up to the
\* strategy prompt.
Start ==
    /\ pc = "scheduled"
    /\ Resumption(prompt_for_model_config(
               [St EXCEPT !.pc = "select", !.placeholder_mode = TRUE,
                          !.hide_input = TRUE,
                          !.model_val["base"] = FreshModel("base")],
               "base"))

\* The state in which a handler resumes: the front end may have cancelled,
\* and an input the field rejects is counted.
Resumed(s, cancel, where, kind, input) ==
    LET s0 == IF cancel THEN Cancelled(s, where) ELSE s
    IN IF ~cancel /\ ~Valid(kind, input)
       THEN [s0 EXCEPT !.routine.bad = @ + 1]
       ELSE s0

\* The strategy prompt returns.
StrategyReply ==
    /\ pc = "select"
    /\ \E cancel \in BOOLEAN, input \in InputsFor("strategy") :
          /\ (~cancel /\ ~Valid("strategy", input)) => routine.errs < MaxRetries
          /\ LET r == prompt_a_config(
                          Resumed(St, cancel, "select", "strategy", input), input)
             IN Resumption(IF r.stack = <<>> THEN get_strategy_name_tail(r) ELSE r)

\* The prompt of a field of the structured schema returns.
FieldReply ==
    /\ pc = "fields"
    /\ LET top == stack[Len(stack)]
           kind == FieldMeta(top.m, ModelFields[top.m][top.i]).kind
       IN \E cancel \in BOOLEAN, input \in InputsFor(kind) :
             /\ (~cancel /\ ~Valid(kind, input)) => routine.errs < MaxRetries
             /\ LET r == prompt_a_config(
                             Resumed(St, cancel, "field", kind, input), input)
                IN Resumption(IF r.stack = <<>> THEN prompt_for_configuration_tail(r) ELSE r)

\* The prompt of a field of the legacy map returns.
LegacyReply ==
    /\ pc = "legacy"
    /\ \E cancel \in BOOLEAN, input \in InputsFor("num") :
          /\ (~cancel /\ ~Valid("num", input)) => routine.errs < MaxRetries
          /\ LET r == prompt_a_config_legacy(
                          Resumed(St, cancel, "legacy", "num", input), input)
             IN Resumption(IF r.pc = "running" THEN second_pass(r, r.li + 1) ELSE r)

\* The file-name prompt returns.
FileNameReply ==
    /\ pc = "fname"
    /\ \E cancel \in BOOLEAN, raw \in RawNames :
          LET input == format_config_file_name(raw)
              isbad == input = <<>> \/ input \in files
              \* the text as the operator gave it is empty, or the file exists
              owes == raw = <<>> \/ input \in files
              s0 == IF cancel THEN Cancelled(St, "fname") ELSE St
              s1 == [s0 EXCEPT !.fname_log.bad = IF isbad THEN @ + 1 ELSE @,
                               !.fname_log.owed = IF owes THEN @ + 1 ELSE @]
          IN /\ isbad => fname_log.bad < MaxRetries
             /\ Resumption(prompt_new_file_name_reply(s1, raw))

\* The readiness check ends: all go, not all go, or not within the timeout.
VerifyDone ==
    /\ pc = "verify"
    /\ \E r \in {"go", "nogo", "timeout"} : Resumption(verify_status_result(St, r))

Next ==
    \/ Create
    \/ Start
    \/ StrategyReply
    \/ FieldReply
    \/ LegacyReply
    \/ FileNameReply
    \/ VerifyDone

Spec == Init /\ [][Next]_vars

\* The event loop runs a scheduled coroutine, the operator answers every
\* prompt (the guards of the reply steps bound the inputs that are
\* rejected before a valid one or a cancel), and asyncio.wait_for ends by
\* completion or by its timeout.  Nothing obliges the operator to call
\* create.
\* A session that is not over is resumed again.
SessionResumed == pc \notin {"idle"} \cup Terminal /\ tick' = ~tick

Fairness == WF_tick(SessionResumed)

SpecFair == Spec /\ Fairness

(***************************************************************************)
(* Overlapping sessions.  create has no test for a session in progress     *)
(* (lines 33-41): each call schedules one more coroutine on the same       *)
(* application object.  The coroutine that is not running is kept, with    *)
(* its position and locals, in parked.                                     *)
(***************************************************************************)
AtPrompt == {"select", "fields", "legacy", "fname"}

\* The names of what belongs to one coroutine: its position, its locals and
\* what is recorded of the session it runs.
LocalNames ==
    {"pc", "file_name", "strategy", "stack", "model_val",
     "config_map_backup", "li", "caller", "routine", "notified",
     "lookup_called", "saves", "verifies", "cancelled_at",
     "prompts_after_cancel", "engine_done", "overwrote", "finished",
     "fname_log", "map_at_start", "visited", "prompted", "status_result",
     "saved_map", "nested", "supplied", "saved_as", "tick"}

\* The position and locals of a coroutine.
Locals(s) == [n \in LocalNames |-> s[n]]

WithLocals(s, l) == [n \in DOMAIN s |-> IF n \in LocalNames THEN l[n] ELSE s[n]]

\* The prompts at which a second create is explored: the first prompt of a
\* session, before any answer to it.
ReentryAt == {"select"}

\* create(file_name) is called while a session is suspended at a prompt.
CreateAgain ==
    /\ pc \in ReentryAt
    /\ routine.errs = 0
    /\ parked = <<>>
    /\ sessions < MaxSessions
    /\ \E fn \in RawNames \cup {NoName} :
          LET r == create(St, fn)
          IN Set(IF r.pc = "scheduled"
                 THEN [r EXCEPT !.parked = <<Locals(St)>>]
                 ELSE r)

\* The later coroutine has ended and the earlier one is the one left to
\* resume.  (Which of two outstanding prompts the front end answers is
\* decided outside this file; the runs explored here answer the later one
\* first.)
Switch ==
    /\ parked # <<>>
    /\ pc \in Terminal
    /\ Set(WithLocals([St EXCEPT !.parked = <<>>], parked[1]))

NextConc ==
    \/ Next
    \/ CreateAgain
    \/ Switch

SpecConc == Init /\ [][NextConc]_vars

\* The number of prompts awaiting input, over both coroutines.
Outstanding ==
    (IF pc \in AtPrompt THEN 1 ELSE 0)
    + (IF parked # <<>> /\ parked[1].pc \in AtPrompt THEN 1 ELSE 0)

(***************************************************************************)
(* Properties.                                                             *)
(***************************************************************************)
KindOf(field) ==
    IF field[1] = "leg" THEN "num" ELSE FieldMeta(field[1], field[2]).kind

ValueOf(field) ==
    IF field[1] = "leg" THEN legacy_map[field[2]] ELSE model_val[field[1]][field[2]]

\* C1: a session in which the operator cancelled at strategy selection ends
\* cancelled, without the schema catalogue having been consulted, without
\* any schema field or file name prompted, and with nothing persisted.
C1_CancelAtSelectionAborts ==
    (cancelled_at = "select" /\ pc \in Terminal) =>
        /\ pc = "cancelled"
        /\ ~lookup_called
        /\ saves = 0
        /\ fname_log.prompts = 0

\* C2: a session whose readiness check timed out ends with the file name,
\* the strategy name and the schema binding unset and with the timeout
\* notified (pc "failed" is the timeout raised to the caller).
C2_TimeoutUnbindsAll ==
    pc = "failed" =>
        /\ strategy_file_name = NoName
        /\ strategy_name = None
        /\ strategy_config_map = None
        /\ "timeout" \in notified

\* C3: when the operator cancelled in the legacy engine, at a field prompt
\* or at the file-name prompt, every key of the map holds at the end of the
\* session the value it had when the session began.
C3_LegacyCancelRestoresMap ==
    (/\ pc \in Terminal
     /\ get_strategy_config_map(strategy) = "legacy"
     /\ cancelled_at \in {"legacy", "fname"})
        => legacy_map = map_at_start

\* C3 witness: the second legacy session was cancelled at the prompt of k4,
\* after k1 had been answered, over a map the first session had filled.
C3_Witness ==
    /\ pc = "cancelled"
    /\ cancelled_at = "legacy"
    /\ finished.field = <<"leg", "k4">>
    /\ finished.outcome = "cancelled"
    /\ map_at_start["k1"] \in {"5.0", "7.0"}
    /\ legacy_map = map_at_start

\* C4: in both single-field routines every rejected input was answered by
\* one error message and a new prompt of the same field, a field never
\* holds a rejected input, the value stored is the accepted input, and a
\* cancelled routine leaves the field as it found it.
C4_RetryUntilValid ==
    /\ finished.outcome = "stored" =>
          /\ Valid(KindOf(finished.field), finished.input)
          /\ finished.after = ParseTable(finished.input)
          /\ finished.errs = finished.bad
    /\ finished.outcome = "cancelled" =>
          /\ finished.after = finished.before
          /\ finished.errs = finished.bad
    /\ pc \in {"select", "fields", "legacy"} =>
          /\ routine.errs = routine.bad
          /\ ValueOf(routine.field) = routine.before
    /\ \A m \in Models : \A f \in Range(ModelFields[m]) : model_val[m][f] # "abc"
    /\ \A k \in Range(LegacyKeys) : legacy_map[k] # "abc"

\* C4 witness: a field of the structured schema was stored after two
\* rejected inputs.
C4_Witness ==
    /\ finished.outcome = "stored"
    /\ finished.field = <<"pmm", "market">>
    /\ finished.bad >= 2
    /\ finished.errs >= 2
    /\ finished.after \in {"5.0", "7.0"}

\* C5: a first session (nothing bound before it) in which the operator
\* cancelled at some prompt ends with the file name, the strategy name and
\* the schema unbound.
C5_CancelLeavesUnbound ==
    (sessions = 1 /\ cancelled_at # "no" /\ pc \in {"done", "cancelled"}) =>
        /\ strategy_file_name = NoName
        /\ strategy_name = None
        /\ strategy_config_map = None

\* C6: when the controller starts the readiness check on the structured
\* path, the configuration has been persisted to the resolved file name and
\* the operator has not cancelled in the session.
C6_VerifyOnlyAfterSave ==
    (pc = "verify" /\ caller = "controller") =>
        /\ cancelled_at = "no"
        /\ saves = 1
        /\ strategy_file_name \in files

\* C7: no prompt is handed to the operator while the cancellation flag is
\* set.
C7_NoPromptAfterCancel == ~prompts_after_cancel

\* The name prompt_new_file_name returns, as formatted on line 236, is not
\* empty and names no existing file; every formatted input that collided
\* was answered by a notification and a new prompt; and no save of the
\* session went over an existing file.
FormattedNameFresh ==
    /\ fname_log.prompts > 0 =>
          /\ fname_log.notes = fname_log.bad
          /\ fname_log.returned = NoName => fname_log.prompts = fname_log.bad + 1
    /\ fname_log.returned # NoName =>
          /\ fname_log.returned # <<>>
          /\ ~fname_log.existed
          /\ fname_log.returned = format_config_file_name(fname_log.raw)
          /\ fname_log.prompts = fname_log.bad + 1
          /\ ~overwrote

\* C8: every input of the operator at the file-name prompt that is empty or
\* names an existing file is answered by a notification and a new prompt,
\* so the name returned comes from the first input that is neither empty
\* nor colliding; the name returned is not empty and names no existing
\* file, and no save of the session went over an existing file.
C8_FileNameFresh ==
    /\ fname_log.prompts > 0 =>
          /\ fname_log.notes = fname_log.owed
          /\ fname_log.returned = NoName => fname_log.prompts = fname_log.owed + 1
    /\ fname_log.returned # NoName =>
          /\ fname_log.raw # <<>>
          /\ fname_log.returned # <<>>
          /\ ~fname_log.existed
          /\ fname_log.prompts = fname_log.owed + 1
          /\ ~overwrote

\* C9: a session that has ended, in success or cancelled, has cleared the
\* suppression flags it set on entry.
C9_FlagsClearedAtEnd ==
    pc \in {"done", "cancelled"} => (~placeholder_mode /\ ~hide_input)

\* C10: a session persists at most once and starts the readiness check at
\* most once; once the legacy engine has saved and verified, the session
\* ends with exactly that one save and check and with the file name and
\* strategy name the legacy engine bound.
C10_SingleSaveAndVerify ==
    /\ saves <= 1
    /\ verifies <= 1
    /\ (engine_done /\ pc \in Terminal) =>
          /\ pc = "done"
          /\ saves = 1
          /\ verifies = 1
          /\ strategy_name = strategy
          /\ strategy_file_name =
                 (IF file_name # NoName THEN file_name ELSE fname_log.returned)
          /\ strategy_file_name \in files

\* C10 witness: a legacy session that asked for a file name has ended.
C10_Witness ==
    /\ pc = "done"
    /\ engine_done
    /\ saves = 1
    /\ verifies = 1
    /\ fname_log.returned # NoName
    /\ strategy_file_name = fname_log.returned

\* C11: whenever a session has ended, by return or by exception, the
\* cancellation flag is false.
C11_FlagClearAtEnd == pc \in Terminal => ~to_stop_config

\* C11 witness: a legacy session has ended after its own save and check,
\* the path on which the controller sets the flag itself (line 66).
C11_Witness ==
    /\ pc = "done"
    /\ engine_done
    /\ get_strategy_config_map(strategy) = "legacy"
    /\ ~to_stop_config

\* C12: at most one operator prompt is outstanding at any time, also when
\* create is invoked again while a session is suspended at a prompt.
C12_OnePromptOutstanding == Outstanding <= 1

OfModel(log, m) == SelectSeq(log, LAMBDA e : e[1] = m)

IsPrefix(a, b) == Len(a) <= Len(b) /\ SubSeq(b, 1, Len(a)) = a

\* The fields of model m, from number i on, that are both required and
\* prompt-on-new, in declaration order.
RECURSIVE RequiredOnNew(_, _)
RequiredOnNew(m, i) ==
    IF i > Len(ModelFields[m]) THEN <<>>
    ELSE LET f == ModelFields[m][i]
             meta == FieldMeta(m, f)
         IN (IF meta.cd /\ meta.pon /\ meta.req THEN <<(<<m, f>>)>> ELSE <<>>)
            \o RequiredOnNew(m, i + 1)

\* prompt_for_model_config has gone through model m to the end, uncancelled.
LoopDone(m) ==
    CASE m = "base" -> strategy # None
      [] m = "pmm"  -> strategy = "pmm" /\ pc # "fields" /\ cancelled_at # "field"
      [] OTHER      -> /\ strategy = "pmm" /\ pc # "fields" /\ cancelled_at # "field"
                       /\ model_val["pmm"]["timeframe"] = m

\* C13: prompt_for_model_config passes to the prompt routine exactly the
\* fields of the model that are required and prompt-on-new, in declaration
\* order and once each; the prompts issued are those of these fields that
\* have a prompt text; no other field of the model is changed; and when
\* the loop has ended uncancelled every such field has been visited.
C13_PromptsRequiredOnNewInOrder ==
    \A m \in Models :
       /\ IsPrefix(OfModel(visited, m), RequiredOnNew(m, 1))
       /\ OfModel(prompted, m)
             = SelectSeq(OfModel(visited, m), LAMBDA e : FieldMeta(e[1], e[2]).text)
       /\ \A f \in Range(ModelFields[m]) :
             model_val[m][f] # None => <<m, f>> \in Range(prompted)
       /\ LoopDone(m) => OfModel(visited, m) = RequiredOnNew(m, 1)

\* C13 witness: a structured session has gone through the schema and a
\* nested model after a rejected input, and waits for the readiness check.
C13_Witness ==
    /\ pc = "verify"
    /\ strategy = "pmm"
    /\ cancelled_at = "no"
    /\ "error" \in notified
    /\ model_val["pmm"]["timeframe"] = "range"
    /\ visited = << <<"base", "strategy">>, <<"pmm", "market">>,
                    <<"pmm", "timeframe">>, <<"range", "start">>,
                    <<"pmm", "derived">>, <<"pmm", "spread">> >>
    /\ model_val["pmm"]["opt"] = None

\* C14: when the chosen strategy name resolves to no schema, the same
\* resumption ends the session as cancelled: no field or file-name prompt
\* is issued, nothing is persisted, the readiness check does not run, no
\* binding is set, and the strategy prompt is not offered again.
C14_NoSchemaCancels ==
    /\ [](strategy = "ghost" => pc = "cancelled")
    /\ [][(pc = "select" /\ strategy' = "ghost")
            => /\ pc' = "cancelled"
               /\ ~to_stop_config'
               /\ prompted' = prompted
               /\ fname_log'.prompts = 0
               /\ saves' = 0 /\ files' = files /\ legacy_map' = legacy_map
               /\ verifies' = 0
               /\ UNCHANGED <<strategy_file_name, strategy_name,
                              strategy_config_map>>]_vars

\* C14 witness: the operator chose a name without a schema, with and
\* without a file name given to create; the lookup ran and the session is
\* over.
C14_Witness ==
    /\ strategy = "ghost"
    /\ get_strategy_config_map(strategy) = "none"
    /\ lookup_called
    /\ pc = "cancelled"
    /\ file_name # NoName

\* C15: when the readiness check ends, the advice to start is shown if and
\* only if the check completed within the timeout with result true; when
\* it completed with result false nothing is shown, the session bindings
\* stay as they were and the session ends without an error.
C15_AdviceIffAllGo ==
    [][(pc = "verify" /\ pc' # "verify")
         => /\ status_result' \in {"go", "nogo", "timeout"}
            /\ ("start" \in notified') <=> (status_result' = "go")
            /\ "start" \notin notified
            /\ status_result' = "nogo"
                  => /\ notified' = notified
                     /\ UNCHANGED <<strategy_file_name, strategy_name,
                                    strategy_config_map>>
                     /\ pc' = "done"]_vars

\* C15 witness: the check completed with result false; the session is over
\* without the advice, still bound to the file it saved.
C15_Witness ==
    /\ status_result = "nogo"
    /\ pc = "done"
    /\ "start" \notin notified
    /\ saves = 1
    /\ strategy_file_name # NoName

\* The keys of the legacy map, from number i on, that are both prompt-on-new
\* and required, in map order.
RECURSIVE PromptedKeys(_)
PromptedKeys(i) ==
    IF i > Len(LegacyKeys) THEN <<>>
    ELSE LET k == LegacyKeys[i]
         IN (IF LegacyMeta(k).prompt_on_new /\ LegacyMeta(k).required
             THEN <<(<<"leg", k>>)>> ELSE <<>>)
            \o PromptedKeys(i + 1)

\* C16: when the legacy engine completes uncancelled, the map it has just
\* persisted holds the default in every key that is not both prompt-on-new
\* and required (the non-required ones included), and the keys prompted
\* are exactly those that are both, in map order; no other key is ever
\* prompted.
C16_LegacyDefaultsAtSave ==
    /\ IsPrefix(OfModel(prompted, "leg"), PromptedKeys(1))
    /\ (pc = "verify" /\ caller = "legacy")
          => /\ \A k \in Range(LegacyKeys) :
                   ~(LegacyMeta(k).prompt_on_new /\ LegacyMeta(k).required)
                      => saved_map[k] = LegacyMeta(k).default
             /\ OfModel(prompted, "leg") = PromptedKeys(1)
             /\ saved_map = legacy_map

\* C16 witness: a legacy session that began over the map an earlier session
\* left has just persisted: the non-required key holds its default, the
\* prompted keys hold the typed values.
C16_Witness ==
    /\ pc = "verify" /\ caller = "legacy"
    /\ cancelled_at = "no"
    /\ saves = 1
    /\ ~LegacyMeta("k2").required
    /\ saved_map["k2"] = "d2"
    /\ saved_map["k1"] = "5.0" /\ saved_map["k4"] = "7.0"
    /\ map_at_start # UnsetMap

\* C17: a field in which a nested model has been stored has had
\* prompt_for_model_config run on that model exactly once, however many
\* inputs were rejected before, and its fields are gone through before the
\* loop of the enclosing model goes on; a field holding a value that is
\* not a model, or none, has had no such run.
C17_NestedModelOnce ==
    /\ \A m \in Models : \A f \in Range(ModelFields[m]) :
          LET runs == Len(SelectSeq(nested, LAMBDA e : e = <<m, f>>))
          IN /\ runs <= 1
             /\ (runs = 1)
                   <=> (FieldMeta(m, f).kind = "model" /\ model_val[m][f] # None)
    /\ \A p \in 1..Len(visited) :
          LET e == visited[p]
          IN (FieldMeta(e[1], e[2]).kind = "model"
              /\ model_val[e[1]][e[2]] = "range")
                => /\ Len(visited) > p
                   /\ visited[p + 1] = <<"range", "start">>

\* C17 witness: the nested model was stored after as many rejected inputs
\* as the bound allows, its loop ran once and its first field is now
\* prompted.
C17_Witness ==
    /\ finished.field = <<"pmm", "timeframe">>
    /\ finished.outcome = "stored"
    /\ finished.errs = MaxRetries
    /\ model_val["pmm"]["timeframe"] = "range"
    /\ nested = << <<"pmm", "timeframe">> >>
    /\ pc = "fields"
    /\ routine.field = <<"range", "start">>

\* The fields the loop passes to prompt_a_config for which get_client_prompt
\* gives none.
NoText ==
    {e \in UNION {{<<m, f>> : f \in Range(ModelFields[m])} : m \in Models} :
        LET meta == FieldMeta(e[1], e[2])
        IN meta.cd /\ meta.pon /\ meta.req /\ ~meta.text}

\* C18: a field whose prompt text is none is skipped when prompt_a_config
\* is called on it: no prompt is issued for it, its value and the other
\* fields of the model stay as they are (but for the field whose answer
\* the step stores), no notification is added and the cancellation flag
\* is unchanged; the field never holds a value.
C18_NoTextSkipped ==
    /\ [](\A e \in NoText :
             e \notin Range(prompted) /\ model_val[e[1]][e[2]] = None)
    /\ [][\A e \in NoText :
             (e \notin Range(visited) /\ e \in Range(visited'))
                => /\ e \notin Range(prompted')
                   /\ \A f \in Range(ModelFields[e[1]]) :
                         <<e[1], f>> # routine.field
                            => model_val'[e[1]][f] = model_val[e[1]][f]
                   /\ notified' = notified
                   /\ to_stop_config' = to_stop_config]_vars

\* C18 witness: the loop has passed the field without a prompt text and is
\* suspended at the prompt of the field after it.
C18_Witness ==
    /\ <<"pmm", "derived">> \in NoText
    /\ <<"pmm", "derived">> \in Range(visited)
    /\ pc = "fields"
    /\ routine.field = <<"pmm", "spread">>
    /\ model_val["pmm"]["derived"] = None
    /\ prompted[Len(prompted)] = <<"pmm", "spread">>

\* C19: a create that does not schedule a session (its file name is that of
\* an existing file) issues a notification and leaves the busy flags, the
\* cancellation flag, the bindings, the file system and the session as
\* they were; a session is scheduled only without a name or with the name
\* of no existing file; and a session given a name never issues the
\* file-name prompt and persists, if it does, once and to that name.
C19_CreateWithFileName ==
    /\ [](supplied # NoName
            => /\ fname_log.prompts = 0
               /\ pc # "fname"
               /\ saves <= 1
               /\ saves = 1 => (saved_as = supplied /\ supplied \in files))
    /\ [][((pc \in {"idle"} \cup Terminal /\ pc' # "scheduled")
              => (/\ rejected' /\ "exists" \in notified'
                  /\ UNCHANGED <<placeholder_mode, hide_input, to_stop_config,
                                 strategy_file_name, strategy_name,
                                 strategy_config_map, files, legacy_map,
                                 pc, stack, sessions, prompted, saves,
                                 verifies>>))
           /\ ((pc # "scheduled" /\ pc' = "scheduled")
                 => (/\ supplied' = NoName \/ ~path_exists(files, supplied')
                     /\ file_name' = supplied'))]_vars

\* C19 witness: a session given a name persisted to it and ended; a later
\* create with a name that exists was turned away.
C19_Witness ==
    /\ sessions = 1
    /\ pc = "done"
    /\ supplied = <<"b", ".", "yml">>
    /\ saved_as = supplied
    /\ fname_log.prompts = 0
    /\ rejected
    /\ "exists" \in notified

\* A scheduled session comes to an end, by return or by exception, with no
\* prompt outstanding and no loop running.
SessionEnds ==
    (pc = "scheduled") ~> (pc \in Terminal /\ pc \notin AtPrompt /\ stack = <<>>)

\* C20: every session terminates: under the fairness of SpecFair a
\* scheduled session reaches one of the terminal states ready, failed or
\* cancelled, with no prompt outstanding.
C20_SessionTerminates ==
    (pc = "scheduled")
       ~> (pc \in {"done", "failed", "cancelled"} /\ pc \notin AtPrompt)
====
